---- MODULE Spec2Model ----
(***************************************************************************)
(* axum-msgpack: the MsgPack<T> extractor / response of src/src/lib.rs.    *)
(*                                                                         *)
(* One behaviour is one call of one of the two adapters:                   *)
(*   - MsgPack::<Input>::from_request(req)  (lib.rs 111-120), which runs   *)
(*     message_pack_content_type (lib.rs 169-199), then buffers the body   *)
(*     (Bytes::from_request, the only await) and decodes it;               *)
(*   - MsgPack(value).into_response()       (lib.rs 147-166).              *)
(*                                                                         *)
(* A header value is a sequence of pieces: a piece is a maximal run of     *)
(* MIME token characters other than '+' (a word, kept as a string), or one *)
(* of the single characters "+", "/", ";", "=", " ", or NonAscii, a byte   *)
(* above 0x7f.  Bytes are the integers 0..255.                             *)
(***************************************************************************)
EXTENDS Integers, Sequences, FiniteSets, TLC

VARIABLES call, req, pc, ctResult, buffered, outcome, trace, bodyReads,
          decodeAttempts, value, response

vars == <<call, req, pc, ctResult, buffered, outcome, trace, bodyReads,
          decodeAttempts, value, response>>

(***************************************************************************)
(* Bounds of the model.                                                    *)
(***************************************************************************)
\* longest subtype part of a generated Content-Type, in pieces
MaxSubLen == 3
\* longest string held by the field `foo` of a generated value
MaxStrLen == 1

(***************************************************************************)
(* Content-Type header values.                                             *)
(***************************************************************************)
NonAscii == "\\xff"

TypeWords == {"application", "Application", "text"}
SubPieces == {"msgpack", "MSGPACK", "x-msgpack", "plain", "+"}

RECURSIVE SeqsUpTo(_, _)
SeqsUpTo(S, n) ==
    IF n = 0 THEN {<<>>}
    ELSE LET shorter == SeqsUpTo(S, n - 1)
         IN  shorter \cup {Append(s, x) : s \in {t \in shorter : Len(t) = n - 1}, x \in S}

TypeParts == {<<>>} \cup {<<w>> : w \in TypeWords}
SlashParts == {<<>>, <<"/">>}
ParamTails ==
    { <<>>,
      <<";">>,
      <<";", " ", "charset", "=", "utf-8">>,
      <<";", "charset", "=", "UTF-8", ";", " ", "q", "=", "1">>,
      <<";", " ", "charset">>,
      <<" ">>,
      <<NonAscii>> }

HeaderValues ==
    { t \o s \o u \o p : t \in TypeParts, s \in SlashParts,
                         u \in SeqsUpTo(SubPieces, MaxSubLen), p \in ParamTails }

\* the Content-Type entry of a header map: absent, or a header value
ContentTypes == {[present |-> FALSE]} \cup
                {[present |-> TRUE, pieces |-> h] : h \in HeaderValues}

\* RequestParts: headers: Option<HeaderMap>, body: Option<B>
Requests ==
    { [headers |-> hs, body |-> b] :
        hs \in {[some |-> FALSE]} \cup {[some |-> TRUE, content_type |-> c] : c \in ContentTypes},
        b \in {"Some", "None"} }

(***************************************************************************)
(* HeaderValue::to_str (lib.rs 180): Ok only when every byte is visible    *)
(* ASCII (or tab/space); a byte above 0x7f makes it fail.                  *)
(***************************************************************************)
to_str(pieces) ==
    IF \E i \in 1..Len(pieces) : pieces[i] = NonAscii
    THEN [ok |-> FALSE]
    ELSE [ok |-> TRUE, str |-> pieces]

(***************************************************************************)
(* content_type.parse::<mime::Mime>() (lib.rs 186), the parser of the mime *)
(* crate: a top-level type of token characters, a '/', a subtype of token  *)
(* characters in which the last '+' after its first byte starts the        *)
(* suffix, then optional `;`-separated name=value parameters.  The parsed  *)
(* Mime keeps the ASCII-lowercased source and the places of '/', '+' and   *)
(* the end of the essence.                                                 *)
(***************************************************************************)
is_token(p) == p \notin {"/", ";", "=", " ", NonAscii}

\* str::to_ascii_lowercase on one word
LowerWord(w) ==
    CASE w = "Application" -> "application"
      [] w = "MSGPACK"     -> "msgpack"
      [] w = "X-MsgPack"   -> "x-msgpack"
      [] w = "UTF-8"       -> "utf-8"
      [] OTHER             -> w

\* a variant that keeps the case of every letter
keep_case(s) == s

to_ascii_lowercase(s) == [i \in 1..Len(s) |-> LowerWord(s[i])]

\* the first place at or after `from` that holds no token character, or
\* Len(s) + 1 when the rest of the string is token characters
RECURSIVE TokenEnd(_, _)
TokenEnd(s, from) ==
    IF from > Len(s) THEN Len(s) + 1
    ELSE IF is_token(s[from]) THEN TokenEnd(s, from + 1)
    ELSE from

\* params_from_str: `start` is the first place after a ';'
RECURSIVE params_from_str(_, _)
params_from_str(s, start) ==
    IF start > Len(s) THEN TRUE
    ELSE IF s[start] = " " THEN params_from_str(s, start + 1)
    ELSE LET eq == TokenEnd(s, start)
         IN  IF eq > Len(s) THEN FALSE                       \* MissingEqual
             ELSE IF ~(s[eq] = "=" /\ eq > start) THEN FALSE \* InvalidToken
             ELSE LET semi == TokenEnd(s, eq + 1)
                  IN  IF semi > Len(s) THEN TRUE
                      ELSE IF s[semi] = ";" /\ semi > eq + 1
                           THEN params_from_str(s, semi + 1)
                           ELSE FALSE                        \* InvalidToken

\* the place of the last '+' of s in lo..hi, or 0
LastPlus(s, lo, hi) ==
    LET ps == {i \in lo..hi : s[i] = "+"}
    IN  IF ps = {} THEN 0 ELSE CHOOSE i \in ps : \A j \in ps : j <= i

mime_parse(s) ==
    LET slash == TokenEnd(s, 1)
    IN  IF slash > Len(s) THEN [ok |-> FALSE]                        \* MissingSlash
        ELSE IF ~(s[slash] = "/" /\ slash > 1) THEN [ok |-> FALSE]   \* InvalidToken
        ELSE LET start == slash + 1
                 end   == TokenEnd(s, start)
                 plus  == LastPlus(s, start + 1, end - 1)
             IN  IF end > Len(s)
                 THEN [ok |-> TRUE, source |-> to_ascii_lowercase(s),
                       slash |-> slash, plus |-> plus, end |-> end]
                 ELSE IF ~(s[end] = ";" /\ end > start) THEN [ok |-> FALSE]
                 ELSE IF ~params_from_str(s, end + 1) THEN [ok |-> FALSE]
                 ELSE [ok |-> TRUE, source |-> to_ascii_lowercase(s),
                       slash |-> slash, plus |-> plus, end |-> end]

\* Mime::type_, Mime::subtype, Mime::suffix
type_(mime) == SubSeq(mime.source, 1, mime.slash - 1)
subtype(mime) ==
    SubSeq(mime.source, mime.slash + 1,
           IF mime.plus # 0 THEN mime.plus - 1 ELSE mime.end - 1)
suffix(mime) ==
    IF mime.plus # 0
    THEN [some |-> TRUE, name |-> SubSeq(mime.source, mime.plus + 1, mime.end - 1)]
    ELSE [some |-> FALSE]

\* Name == &str: mime compares its names ignoring ASCII case
NameEq(name, lit) == to_ascii_lowercase(name) = to_ascii_lowercase(lit)

\* a variant whose recognized subtypes lack x-msgpack
is_message_pack_no_x(mime) ==
    /\ NameEq(type_(mime), <<"application">>)
    /\ \/ \E st \in {<<"msgpack">>} : NameEq(subtype(mime), st)
       \/ (suffix(mime).some /\ NameEq(suffix(mime).name, <<"msgpack">>))

\* lib.rs 192-196
is_message_pack(mime) ==
    /\ NameEq(type_(mime), <<"application">>)
    /\ \/ \E st \in {<<"msgpack">>, <<"x-msgpack">>} : NameEq(subtype(mime), st)
       \/ (suffix(mime).some /\ NameEq(suffix(mime).name, <<"msgpack">>))

(***************************************************************************)
(* message_pack_content_type (lib.rs 169-199):                             *)
(* Result<bool, HeadersAlreadyExtracted>.                                  *)
(***************************************************************************)
\* a variant that takes a missing Content-Type for MessagePack
message_pack_content_type_absent_ok(r) ==
    IF ~r.headers.some
    THEN [ok |-> FALSE, err |-> [type |-> "HeadersAlreadyExtracted"]]
    ELSE IF ~r.headers.content_type.present THEN [ok |-> TRUE, val |-> TRUE]
    ELSE LET text == to_str(r.headers.content_type.pieces)
         IN  IF ~text.ok THEN [ok |-> TRUE, val |-> FALSE]
             ELSE LET mime == mime_parse(text.str)
                  IN  IF ~mime.ok THEN [ok |-> TRUE, val |-> FALSE]
                      ELSE [ok |-> TRUE, val |-> is_message_pack(mime)]

\* a variant that folds extracted headers into "no Content-Type"
message_pack_content_type_folded(r) ==
    IF ~r.headers.some THEN [ok |-> TRUE, val |-> FALSE]
    ELSE IF ~r.headers.content_type.present THEN [ok |-> TRUE, val |-> FALSE]
    ELSE LET text == to_str(r.headers.content_type.pieces)
         IN  IF ~text.ok THEN [ok |-> TRUE, val |-> FALSE]
             ELSE LET mime == mime_parse(text.str)
                  IN  IF ~mime.ok THEN [ok |-> TRUE, val |-> FALSE]
                      ELSE [ok |-> TRUE, val |-> is_message_pack(mime)]

message_pack_content_type(r) ==
    IF ~r.headers.some
    THEN [ok |-> FALSE, err |-> [type |-> "HeadersAlreadyExtracted"]]
    ELSE IF ~r.headers.content_type.present THEN [ok |-> TRUE, val |-> FALSE]
    ELSE LET text == to_str(r.headers.content_type.pieces)
         IN  IF ~text.ok THEN [ok |-> TRUE, val |-> FALSE]
             ELSE LET mime == mime_parse(text.str)
                  IN  IF ~mime.ok THEN [ok |-> TRUE, val |-> FALSE]
                      ELSE [ok |-> TRUE, val |-> is_message_pack(mime)]

(***************************************************************************)
(* The typed value: tests::Input { foo: String } (lib.rs 208-209), a       *)
(* string being the sequence of its bytes.  Two more shapes stand for the  *)
(* values the encoder rejects: a sequence that does not know its length    *)
(* and a Serialize implementation that reports an error of its own.        *)
(***************************************************************************)
CharB == 98
Chars == {CharB}
Strs  == SeqsUpTo(Chars, MaxStrLen)
\* "bar", the value of tests::serializes_named
Bar   == <<98, 97, 114>>
\* "foo", the field's name
FieldFoo == <<102, 111, 111>>

Input(s)  == [shape |-> "Input", foo |-> s]
Inputs    == {Input(s) : s \in Strs \cup {Bar}}
OutValues == Inputs \cup {[shape |-> "UnknownLengthSeq"], [shape |-> "CustomError"]}

(***************************************************************************)
(* The codec, MessagePack as rmp_serde writes and reads it.                *)
(***************************************************************************)
FixMap1   == 129
FixArray1 == 145
FixStr0   == 160
True      == 195

\* a str of at most 31 bytes: the marker 0xa0 + length, then the bytes
EncodeStr(s) == <<FixStr0 + Len(s)>> \o s

\* rmp_serde::encode::to_vec: a struct as an array of its fields' values
to_vec(v) ==
    CASE v.shape = "Input" ->
           [ok |-> TRUE, bytes |-> <<FixArray1>> \o EncodeStr(v.foo)]
      [] v.shape = "UnknownLengthSeq" ->
           [ok |-> FALSE,
            err |-> "attempt to serialize struct, sequence or map with unknown length"]
      [] v.shape = "CustomError" ->
           [ok |-> FALSE, err |-> "custom serialize error"]

\* a variant that writes the struct without its field names
to_vec_unnamed(v) == to_vec(v)

\* rmp_serde::encode::to_vec_named (lib.rs 148): a struct as a map from its
\* fields' names to their values
to_vec_named(v) ==
    CASE v.shape = "Input" ->
           [ok |-> TRUE,
            bytes |-> <<FixMap1>> \o EncodeStr(FieldFoo) \o EncodeStr(v.foo)]
      [] v.shape = "UnknownLengthSeq" ->
           [ok |-> FALSE,
            err |-> "attempt to serialize struct, sequence or map with unknown length"]
      [] v.shape = "CustomError" ->
           [ok |-> FALSE, err |-> "custom serialize error"]

\* reading a String at place i of the buffer b
ReadStr(b, i) ==
    IF i > Len(b) THEN [ok |-> FALSE, err |-> "unexpected end of input"]
    ELSE IF b[i] \notin FixStr0..(FixStr0 + 31)
         THEN [ok |-> FALSE, err |-> "invalid type, expected a string"]
    ELSE LET n == b[i] - FixStr0
         IN  IF i + n > Len(b)
             THEN [ok |-> FALSE, err |-> "unexpected end of input"]
             ELSE IF \E k \in (i + 1)..(i + n) : b[k] > 127
                  THEN [ok |-> FALSE, err |-> "invalid value, expected a string"]
                  ELSE [ok |-> TRUE, str |-> SubSeq(b, i + 1, i + n), next |-> i + n + 1]

\* rmp_serde::from_read_ref::<_, Input> (lib.rs 114): one value is read from
\* the front of the buffer, as a map of names or as an array of values; the
\* bytes after it are not looked at
from_read_ref(b) ==
    IF Len(b) = 0 THEN [ok |-> FALSE, err |-> "unexpected end of input"]
    ELSE IF b[1] = FixArray1
         THEN LET f == ReadStr(b, 2)
              IN  IF f.ok THEN [ok |-> TRUE, val |-> Input(f.str), next |-> f.next]
                  ELSE [ok |-> FALSE, err |-> f.err]
    ELSE IF b[1] = FixMap1
         THEN LET k == ReadStr(b, 2)
              IN  IF ~k.ok THEN [ok |-> FALSE, err |-> k.err]
                  ELSE IF k.str # FieldFoo
                       THEN [ok |-> FALSE, err |-> "missing field foo"]
                  ELSE LET f == ReadStr(b, k.next)
                       IN  IF f.ok
                           THEN [ok |-> TRUE, val |-> Input(f.str), next |-> f.next]
                           ELSE [ok |-> FALSE, err |-> f.err]
    ELSE [ok |-> FALSE, err |-> "invalid type, expected struct Input"]

(***************************************************************************)
(* The bodies a client may send: the encodings of the values, every        *)
(* truncation of one, one with a byte appended, one with a byte replaced.  *)
(***************************************************************************)
WireBytes == {FixMap1, FixArray1, FixStr0, FixStr0 + 1, FixStr0 + 3, CharB, True}

Encodings == {to_vec_named(Input(s)).bytes : s \in Strs} \cup
             {to_vec(Input(s)).bytes : s \in Strs}

Bodies ==
    UNION { {SubSeq(e, 1, n) : n \in 0..Len(e)} \cup
            {Append(e, t) : t \in WireBytes} \cup
            {[e EXCEPT ![i] = t] : i \in 1..Len(e), t \in WireBytes}
          : e \in Encodings }

\* what the collaborator's buffering of the body ends with
NotBuffered == [kind |-> "None"]
BodyResults == {[kind |-> "Ok", bytes |-> b] : b \in Bodies} \cup
               {[kind |-> "Err", err |-> [type |-> "FailedToBufferBody"]]}

(***************************************************************************)
(* Rejections.  MsgPackRejection (mod rejection, lib.rs 16-22) has one     *)
(* variant per error type that from_request converts with `?` or `.into()`.*)
(***************************************************************************)
MsgPackRejectionFrom(e) == [variant |-> e.type, inner |-> e]

Pending      == [kind |-> "Pending"]
Ok(v)        == [kind |-> "Ok", val |-> v]
Err(e)       == [kind |-> "Err", rejection |-> MsgPackRejectionFrom(e)]

(***************************************************************************)
(* MsgPack::from_request (lib.rs 111-120).  Its only await is the          *)
(* buffering of the body inside Bytes::from_request, so a call is two      *)
(* steps: from its start to that await, and from the buffered body to its  *)
(* return.  `steps` lists what the step asked of the collaborator and of   *)
(* the codec, in order.                                                    *)
(***************************************************************************)
\* a variant that takes the body before it looks at the headers
from_request_body_first(r) ==
    LET ct == message_pack_content_type(r)
    IN  IF ~ct.ok
        THEN [ct |-> ct, steps |-> <<"body", "headers">>, reads |-> 1, body |-> "None",
              buffered |-> NotBuffered, pc |-> "done", outcome |-> Err(ct.err)]
        ELSE IF ~ct.val
        THEN [ct |-> ct, steps |-> <<"body", "headers", "classify">>, reads |-> 1,
              body |-> "None", buffered |-> NotBuffered, pc |-> "done",
              outcome |-> Err([type |-> "MissingMsgPackContentType"])]
        ELSE IF r.body = "None"
        THEN [ct |-> ct, steps |-> <<"body", "headers", "classify">>, reads |-> 1,
              body |-> "None",
              buffered |-> [kind |-> "Err", err |-> [type |-> "BodyAlreadyExtracted"]],
              pc |-> "done",
              outcome |-> Err([type |-> "BytesRejection",
                               cause |-> "BodyAlreadyExtracted"])]
        ELSE [ct |-> ct, steps |-> <<"body", "headers", "classify">>, reads |-> 1,
              body |-> "None", buffered |-> NotBuffered, pc |-> "buffering",
              outcome |-> Pending]

from_request_to_await(r) ==
    LET ct == message_pack_content_type(r)
    IN  IF ~ct.ok
        THEN [ct |-> ct, steps |-> <<"headers">>, reads |-> 0, body |-> r.body,
              buffered |-> NotBuffered, pc |-> "done", outcome |-> Err(ct.err)]
        ELSE IF ~ct.val
        THEN [ct |-> ct, steps |-> <<"headers", "classify">>, reads |-> 0,
              body |-> r.body, buffered |-> NotBuffered, pc |-> "done",
              outcome |-> Err([type |-> "MissingMsgPackContentType"])]
        \* Bytes::from_request takes the body out of the request
        ELSE IF r.body = "None"
        THEN [ct |-> ct, steps |-> <<"headers", "classify", "body">>, reads |-> 1,
              body |-> "None",
              buffered |-> [kind |-> "Err", err |-> [type |-> "BodyAlreadyExtracted"]],
              pc |-> "done",
              outcome |-> Err([type |-> "BytesRejection",
                               cause |-> "BodyAlreadyExtracted"])]
        ELSE [ct |-> ct, steps |-> <<"headers", "classify", "body">>, reads |-> 1,
              body |-> "None", buffered |-> NotBuffered, pc |-> "buffering",
              outcome |-> Pending]

\* a variant that hands out an empty value when the decoding fails
from_request_after_await_lossy(result) ==
    IF result.kind = "Err"
    THEN [steps |-> <<>>, decodes |-> 0,
          outcome |-> Err([type |-> "BytesRejection", cause |-> result.err.type])]
    ELSE LET value_ == from_read_ref(result.bytes)
         IN  IF value_.ok
             THEN [steps |-> <<"decode">>, decodes |-> 1, outcome |-> Ok(value_.val)]
             ELSE [steps |-> <<"decode">>, decodes |-> 1, outcome |-> Ok(Input(<<>>))]

\* a variant that decodes an empty buffer when the body cannot be buffered
from_request_after_await_unchecked(result) ==
    LET value_ == from_read_ref(IF result.kind = "Err" THEN <<>> ELSE result.bytes)
    IN  IF value_.ok
        THEN [steps |-> <<"decode">>, decodes |-> 1, outcome |-> Ok(value_.val)]
        ELSE [steps |-> <<"decode">>, decodes |-> 1,
              outcome |-> Err([type |-> "InvalidMsgPackBody", err |-> value_.err])]

from_request_after_await(result) ==
    IF result.kind = "Err"
    THEN [steps |-> <<>>, decodes |-> 0,
          outcome |-> Err([type |-> "BytesRejection", cause |-> result.err.type])]
    ELSE LET value_ == from_read_ref(result.bytes)
         IN  IF value_.ok
             THEN [steps |-> <<"decode">>, decodes |-> 1, outcome |-> Ok(value_.val)]
             ELSE [steps |-> <<"decode">>, decodes |-> 1,
                   outcome |-> Err([type |-> "InvalidMsgPackBody", err |-> value_.err])]

(***************************************************************************)
(* Responses: a status, a header map (name-value pairs) and a body.        *)
(***************************************************************************)
INTERNAL_SERVER_ERROR == 500
StatusOk == 200
CONTENT_TYPE == "content-type"

NoResponse == [kind |-> "None"]
Panicked   == [kind |-> "Panic"]

\* a variant that keeps the name's earlier values, as HeaderMap::append does
insert_keeping(headers, name, val) == headers \cup {<<name, val>>}

\* HeaderMap::insert: the name's earlier values are dropped
insert(headers, name, val) == {h \in headers : h[1] # name} \cup {<<name, val>>}

\* Response::builder().status(..).header(..).body(..): an Err when a part
\* is not valid
builder(status, name, val, body) ==
    IF status \in 100..999
    THEN [ok |-> TRUE,
          res |-> [kind |-> "Response", status |-> status,
                   headers |-> insert({}, name, val), body |-> body]]
    ELSE [ok |-> FALSE]

\* <Vec<u8> as IntoResponse>::into_response
bytes_into_response(b) ==
    [kind |-> "Response", status |-> StatusOk,
     headers |-> {<<CONTENT_TYPE, "application/octet-stream">>},
     body |-> [bytes |-> b]]

\* a variant that answers an encoding failure with an empty 200 response
into_response_swallowing(v) ==
    LET encoded == to_vec_named(v)
    IN  IF ~encoded.ok
        THEN bytes_into_response(<<>>)
        ELSE LET res == bytes_into_response(encoded.bytes)
             IN  [res EXCEPT !.headers = insert(@, CONTENT_TYPE, "application/msgpack")]

\* MsgPack::into_response (lib.rs 147-166)
into_response(v) ==
    LET encoded == to_vec_named(v)
    IN  IF ~encoded.ok
        THEN LET built == builder(INTERNAL_SERVER_ERROR, CONTENT_TYPE, "text/plain",
                                  [text |-> encoded.err])
             IN  IF built.ok THEN built.res ELSE Panicked
        ELSE LET res == bytes_into_response(encoded.bytes)
             IN  [res EXCEPT !.headers = insert(@, CONTENT_TYPE, "application/msgpack")]

(***************************************************************************)
(* The state machine.                                                      *)
(***************************************************************************)
NoRequest == [headers |-> [some |-> FALSE], body |-> "None"]
NoValue   == [shape |-> "None"]
Unset     == [ok |-> FALSE, err |-> [type |-> "Unset"]]

Init ==
    /\ call \in {"from_request", "into_response"}
    /\ IF call = "from_request"
       THEN req \in Requests /\ value = NoValue
       ELSE req = NoRequest /\ value \in OutValues
    /\ pc = "start"
    /\ ctResult = Unset
    /\ buffered = NotBuffered
    /\ outcome = Pending
    /\ trace = <<>>
    /\ bodyReads = 0
    /\ decodeAttempts = 0
    /\ response = NoResponse

FromRequestStart ==
    /\ call = "from_request"
    /\ pc = "start"
    /\ LET r == from_request_to_await(req)
       IN  /\ ctResult' = r.ct
           /\ trace' = trace \o r.steps
           /\ bodyReads' = bodyReads + r.reads
           /\ req' = [req EXCEPT !.body = r.body]
           /\ pc' = r.pc
           /\ buffered' = r.buffered
           /\ outcome' = r.outcome
    /\ UNCHANGED <<call, decodeAttempts, value, response>>

FromRequestBuffered ==
    /\ call = "from_request"
    /\ pc = "buffering"
    /\ \E result \in BodyResults :
         LET r == from_request_after_await(result)
         IN  /\ buffered' = result
             /\ trace' = trace \o r.steps
             /\ decodeAttempts' = decodeAttempts + r.decodes
             /\ outcome' = r.outcome
    /\ pc' = "done"
    /\ UNCHANGED <<call, req, ctResult, bodyReads, value, response>>

IntoResponse ==
    /\ call = "into_response"
    /\ pc = "start"
    /\ response' = into_response(value)
    /\ pc' = "done"
    /\ UNCHANGED <<call, req, ctResult, buffered, outcome, trace, bodyReads,
                   decodeAttempts, value>>

Next == FromRequestStart \/ FromRequestBuffered \/ IntoResponse

Spec == Init /\ [][Next]_vars

(***************************************************************************)
(* Vocabulary of the properties.                                           *)
(***************************************************************************)
Extracting  == call = "from_request"
Responding  == call = "into_response"
Classified  == Extracting /\ pc # "start"
HasHeader   == req.headers.some /\ req.headers.content_type.present
Header      == req.headers.content_type.pieces
WithHeader(h) ==
    [headers |-> [some |-> TRUE, content_type |-> [present |-> TRUE, pieces |-> h]],
     body |-> "Some"]
Rejected(variant) == outcome.kind = "Err" /\ outcome.rejection.variant = variant
RejectionKinds ==
    {"HeadersAlreadyExtracted", "MissingMsgPackContentType", "BytesRejection",
     "InvalidMsgPackBody"}
IsPrefix(p, b) == Len(p) <= Len(b) /\ SubSeq(b, 1, Len(p)) = p

\* a whole MessagePack str of ASCII bytes stands at place i of b
WholeStrAt(b, i) ==
    /\ i <= Len(b)
    /\ b[i] \in 160..191
    /\ i + (b[i] - 160) <= Len(b)
    /\ \A k \in (i + 1)..(i + (b[i] - 160)) : b[k] < 128

\* the lowercase form of a header value, letter by letter
LowerCased(h) ==
    [i \in 1..Len(h) |->
        CASE h[i] = "Application" -> "application"
          [] h[i] = "MSGPACK"     -> "msgpack"
          [] h[i] = "X-MsgPack"   -> "x-msgpack"
          [] h[i] = "UTF-8"       -> "utf-8"
          [] OTHER                -> h[i]]

\* the components of a parsed header value as they are written in it
Written(h) == [mime_parse(h) EXCEPT !.source = h]

\* exact, case-sensitive recognition of the components of m
Recognized(m) ==
    /\ type_(m) = <<"application">>
    /\ \/ subtype(m) \in {<<"msgpack">>, <<"x-msgpack">>}
       \/ (suffix(m).some /\ suffix(m).name = <<"msgpack">>)

\* the values of the response's Content-Type header
ContentTypeOf(res) == {h[2] : h \in {x \in res.headers : x[1] = CONTENT_TYPE}}

(***************************************************************************)
(* C1.  For every present, text-interpretable, MIME-parsable Content-Type  *)
(* header, message_pack_content_type returns true if and only if the       *)
(* parsed primary type is application and the parsed subtype is msgpack or *)
(* x-msgpack or the parsed suffix is msgpack; parameters never change the  *)
(* result; a header whose primary type is not application does not match.  *)
(***************************************************************************)
MatcherIffRecognized ==
    (Classified /\ HasHeader /\ to_str(Header).ok /\ mime_parse(Header).ok) =>
        LET m       == mime_parse(Header)
            essence == SubSeq(Header, 1, m.end - 1)
        IN  /\ ctResult.ok
            /\ ctResult.val = Recognized(m)
            /\ (type_(m) # <<"application">>) => ~ctResult.val
            /\ \A p \in ParamTails :
                 (to_str(essence \o p).ok /\ mime_parse(essence \o p).ok) =>
                     message_pack_content_type(WithHeader(essence \o p)) = ctResult

MatcherIffRecognizedWitness ==
    /\ Classified /\ HasHeader
    /\ Header = <<"application", "/", "plain", "+", "msgpack", ";", " ", "charset", "=", "utf-8">>
    /\ ctResult.ok /\ ctResult.val

(***************************************************************************)
(* C2.  With headers available and a Content-Type that is absent, not text,*)
(* not a MIME type or not recognized, from_request fails with              *)
(* MissingMsgPackContentType whatever the body is; the body is not read    *)
(* and nothing is decoded.                                                 *)
(***************************************************************************)
Unrecognized ==
    \/ ~req.headers.content_type.present
    \/ ~to_str(Header).ok
    \/ ~mime_parse(Header).ok
    \/ ~Recognized(mime_parse(Header))

UnsupportedContentTypeRejected ==
    (Classified /\ req.headers.some /\ Unrecognized) =>
        /\ pc = "done"
        /\ Rejected("MissingMsgPackContentType")
        /\ bodyReads = 0
        /\ decodeAttempts = 0
        /\ buffered = NotBuffered
        /\ \A i \in 1..Len(trace) : trace[i] \notin {"body", "decode"}

UnsupportedContentTypeWitness ==
    /\ Classified /\ HasHeader
    /\ Header = <<"text", "/", "plain">>
    /\ req.body = "Some"
    /\ Rejected("MissingMsgPackContentType")

(***************************************************************************)
(* C3.  With the headers already extracted, from_request fails with        *)
(* HeadersAlreadyExtracted, a kind other than the three others, whatever   *)
(* the body is; the body is not read and nothing is decoded.               *)
(***************************************************************************)
HeadersUnavailableRejected ==
    (Classified /\ ~req.headers.some) =>
        /\ pc = "done"
        /\ Rejected("HeadersAlreadyExtracted")
        /\ outcome.rejection.variant \notin
             {"MissingMsgPackContentType", "BytesRejection", "InvalidMsgPackBody"}
        /\ bodyReads = 0
        /\ decodeAttempts = 0
        /\ buffered = NotBuffered
        /\ \A i \in 1..Len(trace) : trace[i] \notin {"body", "decode"}

HeadersUnavailableWitness ==
    /\ Classified /\ ~req.headers.some
    /\ req.body = "Some"
    /\ Rejected("HeadersAlreadyExtracted")

EncodedResponse ==
    (Responding /\ pc = "done" /\ value.shape = "Input") =>
        /\ response.kind = "Response"
        /\ response.body =
             [bytes |-> <<129, 163, 102, 111, 111, 160 + Len(value.foo)>> \o value.foo]
        /\ ContentTypeOf(response) = {"application/msgpack"}
        /\ ContentTypeOf(bytes_into_response(response.body.bytes)) # {"application/msgpack"}

EncodedResponseWitness ==
    /\ Responding /\ pc = "done"
    /\ value = Input(Bar)
    /\ response.kind = "Response"
    /\ response.body = [bytes |-> <<129, 163, 102, 111, 111, 163, 98, 97, 114>>]

(***************************************************************************)
(* C6.  For a value whose encoding fails, into_response raises nothing and *)
(* gives a response with status 500 and a plain-text body that is the      *)
(* error's description; on both paths it gives a response.                 *)
(***************************************************************************)
FallbackResponse ==
    (Responding /\ pc = "done") =>
        /\ response.kind = "Response"
        /\ (value.shape # "Input") =>
             /\ ~to_vec_named(value).ok
             /\ response.status = 500
             /\ response.body = [text |-> to_vec_named(value).err]
             /\ ContentTypeOf(response) = {"text/plain"}

FallbackResponseWitness ==
    /\ Responding /\ pc = "done"
    /\ value = [shape |-> "UnknownLengthSeq"]
    /\ response.kind = "Response"
    /\ response.status = 500

(***************************************************************************)
(* C7.  As claimed: application/msgpack is the Content-Type of every       *)
(* response of into_response, on the success and on the failure path.      *)
(***************************************************************************)
CanonicalOnEveryResponse ==
    (Responding /\ pc = "done") => ContentTypeOf(response) = {"application/msgpack"}

(***************************************************************************)
(* C7, amended.  The Content-Type of a response of into_response is        *)
(* application/msgpack exactly when the encoding succeeded; the fallback   *)
(* response of the failure path carries text/plain.                        *)
(***************************************************************************)
CanonicalOnEncodedOnly ==
    (Responding /\ pc = "done") =>
        /\ Cardinality(ContentTypeOf(response)) = 1
        /\ ("application/msgpack" \in ContentTypeOf(response)) <=> value.shape = "Input"
        /\ ("text/plain" \in ContentTypeOf(response)) <=> value.shape # "Input"

CanonicalOnEncodedOnlyWitness ==
    /\ Responding /\ pc = "done"
    /\ value = [shape |-> "CustomError"]
    /\ ContentTypeOf(response) = {"text/plain"}

(***************************************************************************)
(* C8.  As claimed: the matcher compares case-sensitively, so a header     *)
(* that matches is written exactly as a recognized one: its type is        *)
(* application and its subtype msgpack or x-msgpack or its suffix msgpack, *)
(* letter for letter.                                                      *)
(***************************************************************************)
MatchIsCaseSensitive ==
    (Classified /\ HasHeader /\ ctResult.ok /\ ctResult.val) =>
        Recognized(Written(Header))

(***************************************************************************)
(* C8, amended.  The matcher compares ignoring ASCII case: a header        *)
(* matches exactly when its lowercase form is a recognized one, so a       *)
(* header that differs from a recognized one only in letter case matches.  *)
(***************************************************************************)
MatchIgnoresCase ==
    (Classified /\ HasHeader /\ to_str(Header).ok /\ mime_parse(Header).ok) =>
        /\ ctResult.ok
        /\ ctResult.val = Recognized(Written(LowerCased(Header)))

MatchIgnoresCaseWitness ==
    /\ Classified /\ HasHeader
    /\ Header = <<"Application", "/", "MSGPACK">>
    /\ ctResult.ok /\ ctResult.val

(***************************************************************************)
(* C9.  With a matching Content-Type and a body the collaborator cannot    *)
(* supply, from_request fails with the BytesRejection of the collaborator, *)
(* a kind other than the three others, and nothing is decoded.             *)
(***************************************************************************)
BodyUnavailableRejected ==
    (Extracting /\ pc = "done" /\ buffered.kind = "Err") =>
        /\ ctResult.ok /\ ctResult.val
        /\ Rejected("BytesRejection")
        /\ outcome.rejection.inner.cause = buffered.err.type
        /\ outcome.rejection.variant \notin
             {"HeadersAlreadyExtracted", "MissingMsgPackContentType", "InvalidMsgPackBody"}
        /\ decodeAttempts = 0
        /\ \A i \in 1..Len(trace) : trace[i] # "decode"

BodyUnavailableWitness ==
    /\ Extracting /\ pc = "done"
    /\ buffered = [kind |-> "Err", err |-> [type |-> "FailedToBufferBody"]]
    /\ Rejected("BytesRejection")

(***************************************************************************)
(* C10.  A call of from_request asks for the headers, classifies the       *)
(* Content-Type, buffers the body and decodes, in this order, each only    *)
(* when all the earlier ones succeeded; the body is read once when the     *)
(* Content-Type matches and never otherwise, decoding is tried at most     *)
(* once, and the call ends in exactly one of: the value, or one of the     *)
(* four rejections.                                                        *)
(***************************************************************************)
StepOrder == <<"headers", "classify", "body", "decode">>

StepsInOrder ==
    Extracting =>
        /\ IsPrefix(trace, StepOrder)
        /\ (pc = "start") => (trace = <<>> /\ outcome = Pending)
        /\ (pc = "buffering") => (trace = SubSeq(StepOrder, 1, 3) /\ outcome = Pending)
        /\ (pc # "start") =>
             /\ Len(trace) >= 1
             /\ (Len(trace) >= 2) <=> req.headers.some
             /\ (Len(trace) >= 3) <=> (ctResult.ok /\ ctResult.val)
             /\ bodyReads = (IF ctResult.ok /\ ctResult.val THEN 1 ELSE 0)
        /\ (Len(trace) = 4) <=> (buffered.kind = "Ok")
        /\ decodeAttempts = (IF Len(trace) = 4 THEN 1 ELSE 0)
        /\ (pc = "done") =>
             \/ outcome.kind = "Ok" /\ Len(trace) = 4
             \/ /\ outcome.kind = "Err"
                /\ outcome.rejection.variant \in RejectionKinds
                /\ outcome.rejection.variant =
                     CASE Len(trace) = 1 -> "HeadersAlreadyExtracted"
                       [] Len(trace) = 2 -> "MissingMsgPackContentType"
                       [] Len(trace) = 3 -> "BytesRejection"
                       [] OTHER          -> "InvalidMsgPackBody"

StepsInOrderWitness ==
    /\ Extracting /\ pc = "done"
    /\ trace = StepOrder
    /\ bodyReads = 1 /\ decodeAttempts = 1
    /\ outcome = Ok(Input(<<98>>))
====
